---- MODULE Spec2Model ----
(***************************************************************************)
(* Single-item lot sizing (tools/lot_sizing_tool.py) and its capacitated   *)
(* variant (tools/capacitated_lot_sizing_tool.py).                         *)
(*                                                                         *)
(* One call of a tool is followed through the positions of its code:       *)
(* entry of the core function, the length check (capacitated only), the    *)
(* construction of the MILP, m.optimize() with the status check, and the   *)
(* shaping of the result by the tool.  The external solver is a black box: *)
(* on a feasible model it hands back ANY solution of minimum objective, on *)
(* an infeasible one a non-optimal status.  Quantities are integers (the   *)
(* constraint matrix for fixed setups is a flow matrix, so integer data    *)
(* have integer optimal vertices).                                         *)
(***************************************************************************)
EXTENDS Integers, Sequences, FiniteSets

\* ------------------------------------------------------------------------
\* Bounds of the explored inputs
\* ------------------------------------------------------------------------
MaxT == 2
MaxQty == 1
Slack == 1

CostValues == {0, 1}
InventoryValues == {-1, 0, 1}

\* ------------------------------------------------------------------------
\* Python built-ins used by the code
\* ------------------------------------------------------------------------
RECURSIVE sum(_)
sum(s) == IF s = <<>> THEN 0 ELSE Head(s) + sum(Tail(s))

Range(s) == {s[k] : k \in DOMAIN s}

\* max() of a non-empty list; max([]) raises ValueError and is handled by
\* the caller of this operator.
max(s) == CHOOSE m \in Range(s) : \A v \in Range(s) : v <= m

Least(S) == CHOOSE m \in S : \A v \in S : m <= v

Last(s, first) == IF s = <<>> THEN first ELSE s[Len(s)]

\* ------------------------------------------------------------------------
\* The calls the caller can make
\* ------------------------------------------------------------------------
Tools == {"solve_lot_sizing", "solve_lot_sizing_basic",
          "solve_cap_lot_sizing", "solve_cap_lot_sizing_basic"}

Capacitated(tool) == tool \in {"solve_cap_lot_sizing", "solve_cap_lot_sizing_basic"}

Series == UNION {[1..n -> 0..MaxQty] : n \in 0..MaxT}

\* The demand of the agent's example question and of the tools' command-line
\* examples, the capacity of the capacitated tool's command-line example, and
\* the capacities of scenarios 2 to 4 of the specification.
ScenarioDemand == <<100, 150, 80, 130>>
ExampleCapacity == <<300, 300, 300, 300>>
ScenarioCapacities == {<<90, 90, 90, 90>>, <<0, 0, 0, 0>>, <<90, 90, 90>>}
NoCapacity == <<>>

Args(d, c, sc, uc, hc, ii) ==
    [demand |-> d, capacity |-> c, setup_cost |-> sc, unit_cost |-> uc,
     holding_cost |-> hc, initial_inventory |-> ii]

SmallArgs(capd) ==
    {Args(d, c, sc, uc, hc, ii) :
        d \in Series, c \in (IF capd THEN Series ELSE {NoCapacity}),
        sc \in CostValues, uc \in CostValues, hc \in CostValues,
        ii \in InventoryValues}

ScenarioArgs(capd) ==
    {Args(ScenarioDemand, c, 1000, 50, 2, 0) :
        c \in (IF capd THEN ScenarioCapacities \cup {ExampleCapacity}
                       ELSE {NoCapacity})}

CallArgs(capd) == SmallArgs(capd) \cup ScenarioArgs(capd)

\* ------------------------------------------------------------------------
\* The MILP handed to the solver
\* ------------------------------------------------------------------------
\* A big-M taken from the first period's demand only
bigM_first_period(a) ==
    (IF a.demand = <<>> THEN 0 ELSE a.demand[1]) + a.initial_inventory

\* bigM = sum(demand) + initial_inventory
bigM_uncapacitated(a) == sum(a.demand) + a.initial_inventory

\* bigM = max(capacity)
bigM_capacitated(a) == max(a.capacity)

\* The values the solver's continuous variables take in the model: the
\* multiples of the lot.  Small instances use every integer; an instance
\* with quantities beyond MaxQty uses the greatest common divisor of its
\* data.
RECURSIVE gcd(_, _)
gcd(x, y) == IF y = 0 THEN x ELSE gcd(y, x % y)

RECURSIVE gcdAll(_)
gcdAll(s) == IF s = <<>> THEN 0 ELSE gcd(Head(s), gcdAll(Tail(s)))

Abs(x) == IF x < 0 THEN 0 - x ELSE x

Lot(a) ==
    LET q == a.demand \o a.capacity \o <<Abs(a.initial_inventory)>>
        g == gcdAll(q)
    IN  IF \A k \in DOMAIN q : q[k] <= MaxQty THEN 1 ELSE g

Grid(lot, hi) == {lot * k : k \in 0..(IF hi < 0 THEN 0 ELSE hi \div lot)}

\* prod, inv = addVars(T, lb=0.0), y = addVars(T, vtype=BINARY), the bal_t,
\* (cap_t,) link_t constraints and the objective, for one tool call.
MILP(name, a, capd, bm) ==
    [name |-> name, T |-> Len(a.demand), demand |-> a.demand,
     capacity |-> a.capacity, capacitated |-> capd,
     initial_inventory |-> a.initial_inventory,
     setup_cost |-> a.setup_cost, unit_cost |-> a.unit_cost,
     holding_cost |-> a.holding_cost,
     bigM |-> bm, link |-> "bigM", ceiling |-> bm, lot |-> Lot(a)]

lot_sizing_model(a) == MILP("lot_sizing", a, FALSE, bigM_uncapacitated(a))

cap_lot_sizing_model(a) == MILP("cap_lot_sizing", a, TRUE, bigM_capacitated(a))

\* The constraints of a period without cap_t
PeriodOK_nocap(m, prev, t, p, y) ==
    /\ p >= 0
    /\ prev + p - m.demand[t] >= 0
    /\ IF m.link = "bigM" THEN p <= m.bigM * y ELSE (p > 0 => y = 1)

\* The constraints of a period without the lower bound of inv
PeriodOK_backlog(m, prev, t, p, y) ==
    /\ p >= 0
    /\ m.capacitated => p <= m.capacity[t]
    /\ IF m.link = "bigM" THEN p <= m.bigM * y ELSE (p > 0 => y = 1)

\* The constraints of a period without link_t
PeriodOK_nolink(m, prev, t, p, y) ==
    /\ p >= 0
    /\ prev + p - m.demand[t] >= 0
    /\ m.capacitated => p <= m.capacity[t]
    /\ p <= m.bigM

\* The constraints of period t on production p and setup y, prev being the
\* inventory carried into the period.
PeriodOK(m, prev, t, p, y) ==
    /\ p >= 0
    /\ prev + p - m.demand[t] >= 0
    /\ m.capacitated => p <= m.capacity[t]
    /\ IF m.link = "bigM" THEN p <= m.bigM * y ELSE (p > 0 => y = 1)

EmptyPlan == [prod |-> <<>>, inv |-> <<>>, setup |-> <<>>, cost |-> 0]

\* prev_inv taken to be initial_inventory in every period
EndInv_initial(m, s) == m.initial_inventory

\* prev_inv = initial_inventory if t == 0 else inv[t - 1]
EndInv(m, s) == Last(s.inv, m.initial_inventory)

\* The extension with the unit-cost term left out of the objective
ExtendBy_nounit(m, s, t, p, y) ==
    LET i == Last(s.inv, m.initial_inventory) + p - m.demand[t]
    IN  [prod |-> Append(s.prod, p), inv |-> Append(s.inv, i),
         setup |-> Append(s.setup, y),
         cost |-> s.cost + m.setup_cost * y + m.holding_cost * i]

\* A plan for periods 1..t-1 extended by period t; cost is the objective
\* setup_cost*quicksum(y) + unit_cost*quicksum(prod) + holding_cost*quicksum(inv)
ExtendBy(m, s, t, p, y) ==
    LET i == EndInv(m, s) + p - m.demand[t]
    IN  [prod |-> Append(s.prod, p), inv |-> Append(s.inv, i),
         setup |-> Append(s.setup, y),
         cost |-> s.cost + m.setup_cost * y + m.unit_cost * p + m.holding_cost * i]

Extend(m, S, t) ==
    LET ok == {c \in S \X Grid(m.lot, m.ceiling) \X {0, 1} :
                  PeriodOK(m, EndInv(m, c[1]), t, c[2], c[3])}
    IN  {ExtendBy(m, c[1], t, c[2], c[3]) : c \in ok}

\* Of the plans that end a period with the same inventory only the cheapest
\* can be completed to an optimal plan (the later periods see nothing of a
\* plan but its ending inventory), so the others are dropped.
Cheapest(m, S) ==
    UNION {LET same == {s \in S : EndInv(m, s) = i}
               best == Least({s.cost : s \in same})
           IN  {s \in same : s.cost = best} : i \in {EndInv(m, s) : s \in S}}

RECURSIVE Plans(_, _)
Plans(m, t) ==
    IF t = 0 THEN {EmptyPlan} ELSE Cheapest(m, Extend(m, Plans(m, t - 1), t))

\* m.optimize(): every feasible plan of minimum objective; empty when the
\* model is infeasible.
OptimalSolutions(m) ==
    LET F == Plans(m, m.T)
    IN  IF F = {} THEN {} ELSE {s \in F : s.cost = Least({r.cost : r \in F})}

\* int(round(y[t].X))
RoundSetup(y) == [t \in DOMAIN y |-> IF 2 * y[t] > 1 THEN 1 ELSE 0]

\* ------------------------------------------------------------------------
\* State of one tool call
\* ------------------------------------------------------------------------
VARIABLES
    pc,         \* position in the code: idle, core, build, optimize, return, done, raised
    tool,       \* the tool that was called
    args,       \* its arguments
    model,      \* the gp.Model of the call, NoModel before gp.Model(...)
    optimized,  \* number of m.optimize() calls
    status,     \* m.Status
    raw,        \* the tuple returned by _solve_core / _solve_cap_core
    result,     \* the value returned by the tool
    error       \* the exception that ended the call

vars == <<pc, tool, args, model, optimized, status, raw, result, error>>

NoModel == [name |-> "none"]
NoArgs == Args(<<>>, <<>>, 0, 0, 0, 0)
NoRaw == [prod |-> <<>>, inv |-> <<>>, setup |-> <<>>, cost |-> 0]
NoResult == [kind |-> "none"]

Init ==
    /\ pc = "idle"
    /\ tool = "none"
    /\ args = NoArgs
    /\ model = NoModel
    /\ optimized = 0
    /\ status = "none"
    /\ raw = NoRaw
    /\ result = NoResult
    /\ error = "none"

\* A tool is called: control enters its core function.
Invoke(name) ==
    /\ pc = "idle"
    /\ \E a \in CallArgs(Capacitated(name)) : args' = a
    /\ tool' = name
    /\ pc' = "core"
    /\ UNCHANGED <<model, optimized, status, raw, result, error>>

solve_lot_sizing == Invoke("solve_lot_sizing")

solve_lot_sizing_basic == Invoke("solve_lot_sizing_basic")

solve_cap_lot_sizing == Invoke("solve_cap_lot_sizing")

solve_cap_lot_sizing_basic == Invoke("solve_cap_lot_sizing_basic")

\* _solve_core up to m.setObjective
solve_core_build ==
    /\ pc = "core"
    /\ ~Capacitated(tool)
    /\ model' = lot_sizing_model(args)
    /\ pc' = "optimize"
    /\ UNCHANGED <<tool, args, optimized, status, raw, result, error>>

\* A length check that only notices a capacity list that is too short
LengthsShort(a) == Len(a.demand) > Len(a.capacity)

LengthsDiffer(a) == Len(a.demand) # Len(a.capacity)

\* _solve_cap_core: if len(demand) != len(capacity): raise ValueError
solve_cap_core_check ==
    /\ pc = "core"
    /\ Capacitated(tool)
    /\ IF LengthsDiffer(args)
       THEN /\ error' = "ValueError"
            /\ pc' = "raised"
       ELSE /\ pc' = "build"
            /\ UNCHANGED error
    /\ UNCHANGED <<tool, args, model, optimized, status, raw, result>>

\* _solve_cap_core from gp.Model("cap_lot_sizing") up to m.setObjective;
\* max(capacity) raises ValueError on an empty list, after the model and its
\* (zero) variables were created.
solve_cap_core_build ==
    /\ pc = "build"
    /\ IF args.capacity = <<>>
       THEN /\ model' = [name |-> "cap_lot_sizing"]
            /\ error' = "ValueError"
            /\ pc' = "raised"
       ELSE /\ model' = cap_lot_sizing_model(args)
            /\ pc' = "optimize"
            /\ UNCHANGED error
    /\ UNCHANGED <<tool, args, optimized, status, raw, result>>

\* m.optimize(); if m.Status != GRB.OPTIMAL: raise RuntimeError; return (...)
optimize ==
    /\ pc = "optimize"
    /\ optimized' = optimized + 1
    /\ LET best == OptimalSolutions(model)
       IN  IF best = {}
           THEN /\ status' = "INFEASIBLE"
                /\ error' = "RuntimeError"
                /\ pc' = "raised"
                /\ UNCHANGED raw
           ELSE /\ status' = "OPTIMAL"
                /\ \E s \in best :
                      raw' = [prod |-> s.prod, inv |-> s.inv,
                              setup |-> RoundSetup(s.setup), cost |-> s.cost]
                /\ pc' = "return"
                /\ UNCHANGED error
    /\ UNCHANGED <<tool, args, model, result>>

Basic(name) == name \in {"solve_lot_sizing_basic", "solve_cap_lot_sizing_basic"}

\* return {"production_plan": plan, "inventory": inv, "setup": setups,
\*         "total_cost": cost}
return_dict ==
    /\ pc = "return"
    /\ ~Basic(tool)
    /\ result' = [kind |-> "dict", production_plan |-> raw.prod,
                  inventory |-> raw.inv, setup |-> raw.setup,
                  total_cost |-> raw.cost]
    /\ pc' = "done"
    /\ UNCHANGED <<tool, args, model, optimized, status, raw, error>>

\* return plan, cost
return_pair ==
    /\ pc = "return"
    /\ Basic(tool)
    /\ result' = [kind |-> "pair", production_plan |-> raw.prod,
                  total_cost |-> raw.cost]
    /\ pc' = "done"
    /\ UNCHANGED <<tool, args, model, optimized, status, raw, error>>

Next ==
    \/ solve_lot_sizing
    \/ solve_lot_sizing_basic
    \/ solve_cap_lot_sizing
    \/ solve_cap_lot_sizing_basic
    \/ solve_core_build
    \/ solve_cap_core_check
    \/ solve_cap_core_build
    \/ optimize
    \/ return_dict
    \/ return_pair

Spec == Init /\ [][Next]_vars

\* ------------------------------------------------------------------------
\* Properties
\* ------------------------------------------------------------------------
Ended == pc \in {"done", "raised"}

Scenario1 == Args(ScenarioDemand, NoCapacity, 1000, 50, 2, 0)
Scenario2 == Args(ScenarioDemand, <<90, 90, 90, 90>>, 1000, 50, 2, 0)

\* The reference problem of C1 and C9: the same objective, balance and
\* bounds, with the plain implication "production > 0 => setup = 1" as the
\* linking and production free to exceed sum(demand) + initial_inventory
\* (by Slack lots, the stand-in for "no upper bound").
ImplicationModel(a) ==
    [MILP("implication", a, FALSE, 0) EXCEPT
        !.link = "implication",
        !.ceiling = sum(a.demand) + Abs(a.initial_inventory) + Slack * Lot(a)]

\* The least objective value of m, computed on its own: the cheapest way to
\* end period t with each inventory level, as pairs <<inventory, cost>>.
RECURSIVE CostToReach(_, _)
CostToReach(m, t) ==
    IF t = 0 THEN {<<m.initial_inventory, 0>>}
    ELSE LET ok == {c \in CostToReach(m, t - 1) \X Grid(m.lot, m.ceiling) \X {0, 1} :
                       PeriodOK(m, c[1][1], t, c[2], c[3])}
             next == {<<c[1][1] + c[2] - m.demand[t],
                        c[1][2] + m.setup_cost * c[3] + m.unit_cost * c[2]
                          + m.holding_cost * (c[1][1] + c[2] - m.demand[t])>> : c \in ok}
         IN  {n \in next : \A o \in next : o[1] = n[1] => o[2] >= n[2]}

MinCost(m) == Least({c[2] : c \in CostToReach(m, m.T)})

\* C1: for non-negative initial inventory the total_cost returned by the
\* uncapacitated tools equals the minimum cost of the problem linked by the
\* plain implication with production not bounded by bigM: the big-M bound
\* cuts off no optimal plan.
BigMSafety ==
    (pc = "done" /\ ~Capacitated(tool) /\ args.initial_inventory >= 0)
        => result.total_cost = MinCost(ImplicationModel(args))

\* C1 witness: an uncapacitated call returned a plan that produces the whole
\* of bigM in one period, for more than that period's demand.
BigMSafetyWitness ==
    /\ pc = "done" /\ ~Capacitated(tool) /\ args.initial_inventory >= 0
    /\ \E t \in DOMAIN args.demand :
          /\ result.production_plan[t] = sum(args.demand) + args.initial_inventory
          /\ result.production_plan[t] > args.demand[t]

\* C2: a capacitated call with len(demand) != len(capacity) never gets past
\* the length check: no model is built, optimize is never called, and the
\* call ends with ValueError.
LengthMismatchFailsFast ==
    (Capacitated(tool) /\ Len(args.demand) # Len(args.capacity))
        => /\ pc \in {"core", "raised"}
           /\ model = NoModel
           /\ optimized = 0
           /\ status = "none"
           /\ result = NoResult
           /\ pc = "raised" => error = "ValueError"

\* C2 witness: a call with lists of different lengths has ended.
LengthMismatchWitness ==
    /\ Capacitated(tool) /\ Len(args.demand) # Len(args.capacity)
    /\ pc = "raised" /\ error = "ValueError"

\* C3 as stated: Scenario 2 returns a plan whose period-1 production is 90
\* and in which no period produces more than 90.
Scenario2ReturnsPlan ==
    (Capacitated(tool) /\ args = Scenario2 /\ Ended)
        => /\ pc = "done"
           /\ result.production_plan[1] = 90
           /\ \A t \in 1..4 : result.production_plan[t] <= 90

\* C3 amended: Scenario 2 is infeasible (period-1 demand 100 exceeds the
\* capacity 90 and there is no initial inventory), so the call reaches the
\* solver once and ends with RuntimeError without returning anything.
Scenario2Infeasible ==
    (Capacitated(tool) /\ args = Scenario2)
        => /\ pc \in {"core", "build", "optimize", "raised"}
           /\ result = NoResult /\ raw = NoRaw
           /\ pc = "raised" => (error = "RuntimeError" /\ status = "INFEASIBLE"
                                /\ optimized = 1)

\* C3 witness: the Scenario 2 call has ended.
Scenario2Witness ==
    Capacitated(tool) /\ args = Scenario2 /\ pc = "raised" /\ error = "RuntimeError"

\* There is a period t (of both lists) up to which initial inventory plus
\* capacity falls short of demand.
Unsatisfiable(a) ==
    \E t \in DOMAIN a.demand \cap DOMAIN a.capacity :
        a.initial_inventory + sum(SubSeq(a.capacity, 1, t)) < sum(SubSeq(a.demand, 1, t))

\* C4 as stated: a capacitated call whose capacity makes demand
\* unsatisfiable ends with RuntimeError.
UnsatisfiableRaisesRuntimeError ==
    (Capacitated(tool) /\ Unsatisfiable(args) /\ Ended)
        => (pc = "raised" /\ error = "RuntimeError")

\* C4 amended: for demand and capacity of the same length, a capacitated
\* call whose capacity makes demand unsatisfiable ends with RuntimeError and
\* returns no plan, inventory, setup or cost.
UnsatisfiableSameLengthRaises ==
    (Capacitated(tool) /\ Len(args.demand) = Len(args.capacity) /\ Unsatisfiable(args))
        => /\ pc \in {"core", "build", "optimize", "raised"}
           /\ result = NoResult /\ raw = NoRaw
           /\ pc = "raised" => (error = "RuntimeError" /\ optimized = 1)

\* C4 witness: such a call has ended, with a capacity that is not all zero.
UnsatisfiableWitness ==
    /\ Capacitated(tool) /\ Len(args.demand) = Len(args.capacity)
    /\ Unsatisfiable(args) /\ sum(args.capacity) > 0
    /\ pc = "raised" /\ error = "RuntimeError"

\* C5 as stated: whatever the initial inventory, an uncapacitated call never
\* finds its model infeasible.
NeverInfeasible ==
    ~Capacitated(tool) => (status # "INFEASIBLE" /\ error = "none")

\* C5 amended: for non-negative initial inventory an uncapacitated call
\* never finds its model infeasible and never raises.
NeverInfeasibleNonNegative ==
    (~Capacitated(tool) /\ args.initial_inventory >= 0)
        => (status # "INFEASIBLE" /\ error = "none")

\* C5 witness: an uncapacitated call with non-negative initial inventory
\* short of demand was solved to optimality.
NeverInfeasibleWitness ==
    /\ pc = "done" /\ ~Capacitated(tool) /\ status = "OPTIMAL"
    /\ args.initial_inventory >= 0
    /\ sum(args.demand) > args.initial_inventory

\* inventory[t] = prev + production[t] - demand[t] >= 0 for every period
Balanced(a, plan, inventory) ==
    /\ Len(plan) = Len(a.demand)
    /\ Len(inventory) = Len(a.demand)
    /\ \A t \in DOMAIN a.demand :
          /\ inventory[t] = (IF t = 1 THEN a.initial_inventory ELSE inventory[t - 1])
                              + plan[t] - a.demand[t]
          /\ inventory[t] >= 0

\* C6: every returned result satisfies the balance equation with
\* initial_inventory as the predecessor of the first period, and has no
\* negative inventory (the production plan of the basic tools with the
\* inventory of the solution it was taken from).
BalanceInvariant ==
    pc = "done"
        => /\ Balanced(args, result.production_plan, raw.inv)
           /\ result.kind = "dict" => result.inventory = raw.inv

\* C6 witness: a returned two-period plan that carries inventory from the
\* first period into the second, starting from a non-zero initial inventory.
BalanceWitness ==
    /\ pc = "done" /\ result.kind = "dict"
    /\ Len(args.demand) = 2 /\ args.initial_inventory # 0
    /\ result.inventory[1] > 0 /\ result.production_plan[1] > 0
    /\ args.demand[2] > 0

\* BigM as the claim C7 defines it
ClaimedBigM ==
    IF Capacitated(tool) THEN max(args.capacity)
    ELSE sum(args.demand) + args.initial_inventory

\* C7: in every returned result setup[t] is 0 or 1, is 1 whenever
\* production_plan[t] > 0, and production_plan[t] <= BigM.
SetupLinking ==
    pc = "done"
        => \A t \in DOMAIN args.demand :
              /\ raw.setup[t] \in {0, 1}
              /\ result.production_plan[t] > 0 => raw.setup[t] = 1
              /\ result.production_plan[t] <= ClaimedBigM
              /\ result.kind = "dict" => result.setup = raw.setup

\* C7 witness: a returned plan with a producing period and an idle period
\* under a positive setup cost.
SetupLinkingWitness ==
    /\ pc = "done" /\ result.kind = "dict" /\ args.setup_cost > 0
    /\ \E t \in DOMAIN args.demand :
          result.production_plan[t] > 0 /\ result.setup[t] = 1
    /\ \E t \in DOMAIN args.demand :
          result.production_plan[t] = 0 /\ result.setup[t] = 0

\* C8: every result of a capacitated tool has production_plan[t] <=
\* capacity[t] in every period.
CapacityBound ==
    (pc = "done" /\ Capacitated(tool))
        => \A t \in DOMAIN args.demand : result.production_plan[t] <= args.capacity[t]

\* C8 witness: a returned capacitated plan in which capacity is what limits
\* a period: with a setup cost and no holding cost all outstanding demand
\* would be produced at once, and the period produces its capacity, which is
\* less.
CapacityBoundWitness ==
    /\ pc = "done" /\ Capacitated(tool)
    /\ args.setup_cost > 0 /\ args.holding_cost = 0
    /\ \E t \in DOMAIN args.demand :
          /\ result.production_plan[t] = args.capacity[t]
          /\ args.capacity[t] > 0
          /\ args.capacity[t] < sum(args.demand) - args.initial_inventory

\* C9 as stated: with initial_inventory = 0 every plan returned by the
\* uncapacitated tools produces exactly the total demand, whatever the
\* non-negative costs; Scenario 1 produces 460 at minimum cost.
ExactCoverage ==
    (pc = "done" /\ ~Capacitated(tool) /\ args.initial_inventory = 0)
        => /\ sum(result.production_plan) = sum(args.demand)
           /\ Last(raw.inv, 0) = 0
           /\ args = Scenario1 =>
                 /\ sum(result.production_plan) = 460
                 /\ result.total_cost = MinCost(ImplicationModel(args))

\* C9 amended: the same, for costs that are not all zero.
ExactCoveragePositiveCost ==
    (/\ pc = "done" /\ ~Capacitated(tool) /\ args.initial_inventory = 0
     /\ args.setup_cost + args.unit_cost + args.holding_cost > 0)
        => /\ sum(result.production_plan) = sum(args.demand)
           /\ Last(raw.inv, 0) = 0
           /\ args = Scenario1 =>
                 /\ sum(result.production_plan) = 460
                 /\ result.total_cost = MinCost(ImplicationModel(args))

\* C9 witness: the Scenario 1 call returned.
ExactCoverageWitness ==
    /\ pc = "done" /\ tool = "solve_lot_sizing" /\ args = Scenario1
    /\ sum(result.production_plan) = 460

\* capacity[t] >= sum(demand) + initial_inventory in every period
NonBinding(a) ==
    \A t \in DOMAIN a.capacity : a.capacity[t] >= sum(a.demand) + a.initial_inventory

\* C10 as stated: with same-length lists, non-negative initial inventory and
\* non-binding capacity (any length T >= 0), solve_cap_lot_sizing succeeds
\* like solve_lot_sizing does and returns the same total_cost.
NonBindingCapacityReduces ==
    (/\ tool = "solve_cap_lot_sizing" /\ Ended
     /\ Len(args.demand) = Len(args.capacity)
     /\ args.initial_inventory >= 0 /\ NonBinding(args))
        => /\ OptimalSolutions(lot_sizing_model(args)) # {}
           /\ pc = "done"
           /\ result.total_cost = MinCost(lot_sizing_model(args))

====
